---- MODULE Spec2Model ----
(***************************************************************************)
(* LoRa salinity telemetry link.                                           *)
(*   receiver    : src/receptor_s/main/main.c  (Wi-Fi manager, radio       *)
(*                 listener, publish path, the two restart watchdogs)      *)
(*   transmitter : src/unnamed/part_000        (sample, encode, burst,     *)
(*                 deep sleep)                                             *)
(* Three specifications share the variables:                               *)
(*   Spec      the receiver, one boot after another                        *)
(*   SpecTx    the transmitter duty cycle                                  *)
(*   SpecParse parse_payload applied to a bounded set of wire messages     *)
(***************************************************************************)
EXTENDS Integers, Sequences, FiniteSets, TLC

(***************************************************************************)
(* Program constants                                                       *)
(***************************************************************************)
\* main.c:46  "if (s_retry < 5)"
MAX_RETRIES == 5
\* main.c:182 vTaskDelay(pdMS_TO_TICKS(100))
RX_POLL_MS == 100
\* main.c:206 vTaskDelay(pdMS_TO_TICKS(500))
INACTIVITY_POLL_MS == 500
\* main.c:222 vTaskDelay(pdMS_TO_TICKS(1000)) before the restart on a missing radio
LORA_FAIL_DELAY_MS == 1000
\* main.c:142 uint8_t buf[255]
RX_BUF_SIZE == 255
\* tick rate of the kernel: CONFIG_FREERTOS_HZ of the build configuration, which is
\* not part of the sources, so it is a parameter of the build like the two
\* intervals of main.c:30-31
VARIABLE configTICK_RATE_HZ
\* tick period used by main.c:155/199 and part_000:93-94
\* (xTaskGetTickCount() * portTICK_PERIOD_MS)
portTICK_PERIOD_MS == 1000 \div configTICK_RATE_HZ
\* the tick rates explored: the default of the framework (100), the fastest and a
\* slow one the configuration allows
TickRates == {10, 100, 1000}
\* 2^16: a uint32_t (main.c:33, 199, 201) is kept as two 16-bit halves
TWO16 == 65536

WIFI_CONNECTED_BIT == "BIT0"
WIFI_FAIL_BIT == "BIT1"

\* part_000:19, 24, 27, 28, 147
SAMPLES == 32
SLEEP_SECONDS == 30
TX_BURST_WINDOW_MS == 5000
TX_BURST_GAP_MS == 500
TX_BUF_SIZE == 64
\* part_000:59 full-scale code of the 12-bit converter
ADC_FULL_SCALE == 4095
\* part_000:158 vTaskDelay(pdMS_TO_TICKS(100))
TX_GRACE_MS == 100
\* part_000:56 vTaskDelay(pdMS_TO_TICKS(2))
SAMPLE_DELAY_MS == 2

(***************************************************************************)
(* Bounds of the model                                                     *)
(***************************************************************************)
\* ticks one boot of the receiver may last before the clock stops advancing
MaxTicks == 23
\* link-drop events handled without an address-acquired event in between
MaxDrops == 7
\* tick interrupts of one boot that arrive while a task is between two of its
\* statements (ready or running) and not blocked in a delay, a wait or the HTTP
\* call
MaxBusyTicks == 1
\* latest tick at which the first signal bit of a boot is raised; a wifi_init_sta
\* that still waits after it waits for the rest of the boot
MaxInitTicks == 2
\* characters after the prefix in the wire messages given to parse_payload
MaxTailLen == 5
\* characters of a field made of signs, exponents and hexadecimal digits
MaxFieldLen == 3
\* longest time, in milliseconds, explored for one call of the radio send
\* primitive; neither the driver's interface nor part_000:95 bounds it
MaxSendMs == 200

(***************************************************************************)
(* C strings: sequences of one-character strings, NUL past the end         *)
(***************************************************************************)
NUL == "NUL"

CharAt(s, i) == IF i >= 1 /\ i <= Len(s) THEN s[i] ELSE NUL

DigitChars == <<"0", "1", "2", "3", "4", "5", "6", "7", "8", "9">>

IsDigit(c) == \E d \in 1..10 : DigitChars[d] = c

DigitVal(c) == (CHOOSE d \in 1..10 : DigitChars[d] = c) - 1

\* number of binary digits of n >= 0
RECURSIVE BitLen(_)
BitLen(n) == IF n = 0 THEN 0 ELSE 1 + BitLen(n \div 2)

RECURSIVE DigitsEnd(_, _)
DigitsEnd(s, i) == IF IsDigit(CharAt(s, i)) THEN DigitsEnd(s, i + 1) ELSE i

\* value of the digit run s[i..j-1] continued from acc
RECURSIVE DigitsValue(_, _, _, _)
DigitsValue(s, i, j, acc) ==
    IF i >= j THEN acc ELSE DigitsValue(s, i + 1, j, acc * 10 + DigitVal(s[i]))

\* the vertical tab, which has no escape in a string
VT == "VT"

\* isspace() in the C locale
IsSpace(c) == c \in {" ", "\t", "\n", "\r", "\f", VT}

RECURSIVE SkipSpace(_, _)
SkipSpace(s, i) == IF IsSpace(CharAt(s, i)) THEN SkipSpace(s, i + 1) ELSE i

UpperChars == <<"A", "B", "C", "D", "E", "F", "G", "H", "I", "J", "K", "L", "M",
                "N", "O", "P", "Q", "R", "S", "T", "U", "V", "W", "X", "Y", "Z">>

LowerChars == <<"a", "b", "c", "d", "e", "f", "g", "h", "i", "j", "k", "l", "m",
                "n", "o", "p", "q", "r", "s", "t", "u", "v", "w", "x", "y", "z">>

ToLower(c) ==
    IF \E i \in 1..26 : UpperChars[i] = c
    THEN LowerChars[CHOOSE i \in 1..26 : UpperChars[i] = c]
    ELSE c

IsAlpha(c) == \E i \in 1..26 : LowerChars[i] = ToLower(c)

\* the characters of s from i on spell w, letter case ignored
MatchWord(s, i, w) == \A k \in 1..Len(w) : ToLower(CharAt(s, i + k - 1)) = w[k]

IsHexDigit(c) == IsDigit(c) \/ \E i \in 1..6 : LowerChars[i] = ToLower(c)

HexVal(c) ==
    IF IsDigit(c) THEN DigitVal(c)
    ELSE 9 + (CHOOSE i \in 1..6 : LowerChars[i] = ToLower(c))

RECURSIVE HexEnd(_, _)
HexEnd(s, i) == IF IsHexDigit(CharAt(s, i)) THEN HexEnd(s, i + 1) ELSE i

\* value of the hexadecimal digit run s[i..j-1] continued from acc
RECURSIVE HexValue(_, _, _, _)
HexValue(s, i, j, acc) ==
    IF i >= j THEN acc ELSE HexValue(s, i + 1, j, acc * 16 + HexVal(s[i]))

\* value of the exponent digits s[i..j-1], saturated (any exponent that large is
\* out of the range of a float)
RECURSIVE ExpValue(_, _, _, _)
ExpValue(s, i, j, acc) ==
    IF i >= j THEN acc
    ELSE ExpValue(s, i + 1, j, IF acc >= 1000 THEN acc ELSE acc * 10 + DigitVal(s[i]))

\* end of the n-char-sequence that starts at i: digits, letters and underscores
RECURSIVE NCharEnd(_, _)
NCharEnd(s, i) ==
    IF IsDigit(CharAt(s, i)) \/ IsAlpha(CharAt(s, i)) \/ CharAt(s, i) = "_"
    THEN NCharEnd(s, i + 1) ELSE i

Abs(n) == IF n < 0 THEN 0 - n ELSE n

\* number of decimal digits of n > 0
RECURSIVE DecLen(_)
DecLen(n) == IF n < 10 THEN 1 ELSE 1 + DecLen(n \div 10)

(***************************************************************************)
(* A converted value is kept exact: [k, m, e] is m * 10^-e for k = "fin",  *)
(* m * 2^e for k = "bin" (a hexadecimal input too wide for the decimal      *)
(* form), the infinity of the sign of m for k = "inf" and a NaN for         *)
(* k = "nan". It stands for the float nearest to it; the sign of a zero is  *)
(* not kept. One value has one record. Mantissas of up to 9 decimal digits  *)
(* (7 hexadecimal digits) are covered.                                     *)
(***************************************************************************)
RECURSIVE Normalize(_)
Normalize(x) ==
    IF x.m = 0 THEN [x EXCEPT !.e = 0]
    ELSE IF x.e > 0 /\ x.m % 10 = 0 THEN Normalize([x EXCEPT !.m = @ \div 10, !.e = @ - 1])
    ELSE IF x.e < 0 /\ Abs(x.m) < 10^8 THEN Normalize([x EXCEPT !.m = @ * 10, !.e = @ + 1])
    ELSE IF x.e <= 0 /\ Abs(x.m) >= 10^9 /\ x.m % 10 = 0
         THEN Normalize([x EXCEPT !.m = @ \div 10, !.e = @ - 1])
    ELSE x

Zero == [k |-> "fin", m |-> 0, e |-> 0]

Infinity(neg) == [k |-> "inf", m |-> IF neg THEN -1 ELSE 1, e |-> 0]

NaN == [k |-> "nan", m |-> 0, e |-> 0]

\* the float for the decimal (-1)^neg * mant * 10^x: an infinity from
\* FLT_MAX + ulp/2 = 3.40282357e38 on, zero up to 2^-150 = 7.00649232e-46
DecimalToFloat(neg, mant, x) ==
    IF mant = 0 THEN Zero
    ELSE LET pad == 9 - DecLen(mant)
             M   == mant * 10^pad
             X   == x - pad
         IN  IF X > 30 \/ (X = 30 /\ M >= 340282357) THEN Infinity(neg)
             ELSE IF X < -54 \/ (X = -54 /\ M <= 700649232) THEN Zero
             ELSE Normalize([k |-> "fin", m |-> IF neg THEN 0 - mant ELSE mant,
                             e |-> 0 - x])

\* h * 2^b with the factors of two moved from h to b
RECURSIVE OddPart(_, _)
OddPart(h, b) == IF h % 2 = 0 THEN OddPart(h \div 2, b + 1) ELSE [h |-> h, b |-> b]

\* the float for the binary (-1)^neg * h * 2^b: an infinity from 2^128 - 2^103 on,
\* zero up to 2^-150
BinaryToFloat(neg, h, b) ==
    IF h = 0 THEN Zero
    ELSE LET len  == BitLen(h)
             o    == OddPart(h, b)
             sm   == IF neg THEN 0 - o.h ELSE o.h
             pow5 == 5^(0 - o.b)
         IN  IF len + b > 128
                \/ (len + b = 128 /\ len >= 25 /\ h \div 2^(len - 25) = 2^25 - 1)
             THEN Infinity(neg)
             ELSE IF len + b < -149 \/ (len + b = -149 /\ h = 2^(len - 1)) THEN Zero
             ELSE IF o.b >= 0 /\ BitLen(o.h) + o.b <= 30
                  THEN Normalize([k |-> "fin", m |-> sm * 2^o.b, e |-> 0])
             ELSE IF o.b < 0 /\ o.b >= -13 /\ o.h <= 2147483647 \div pow5
                  THEN Normalize([k |-> "fin", m |-> sm * pow5, e |-> 0 - o.b])
             ELSE [k |-> "bin", m |-> sm, e |-> o.b]

\* the optional exponent part at s[k]: a letter of marks, an optional sign and at
\* least one digit; without a digit nothing of it is taken
ExponentPart(s, k, marks) ==
    LET sgn == CharAt(s, k + 1) \in {"+", "-"}
        d0  == IF sgn THEN k + 2 ELSE k + 1
        d1  == DigitsEnd(s, d0)
        v   == ExpValue(s, d0, d1, 0)
    IN  IF CharAt(s, k) \in marks /\ d1 > d0
        THEN [exp |-> IF CharAt(s, k + 1) = "-" THEN 0 - v ELSE v, end |-> d1]
        ELSE [exp |-> 0, end |-> k]

\* the hexadecimal form after "0x" at s[i1], s[i1 + 1]
HexFloat(s, i1, neg) ==
    LET h0   == i1 + 2
        j    == HexEnd(s, h0)
        dot  == CharAt(s, j) = "."
        k    == IF dot THEN HexEnd(s, j + 1) ELSE j
        nInt == j - h0
        nFr  == IF dot THEN k - (j + 1) ELSE 0
        h    == HexValue(s, j + 1, k, HexValue(s, h0, j, 0))
        x    == ExponentPart(s, k, {"p", "P"})
    IN  IF nInt + nFr = 0
        THEN [val |-> Zero, end |-> i1 + 1]
        ELSE [val |-> BinaryToFloat(neg, h, x.exp - 4 * nFr), end |-> x.end]

\* the decimal form at s[i1]
DecimalFloat(s, p, i1, neg) ==
    LET j    == DigitsEnd(s, i1)
        dot  == CharAt(s, j) = "."
        k    == IF dot THEN DigitsEnd(s, j + 1) ELSE j
        nInt == j - i1
        nFr  == IF dot THEN k - (j + 1) ELSE 0
        mant == DigitsValue(s, j + 1, k, DigitsValue(s, i1, j, 0))
        x    == ExponentPart(s, k, {"e", "E"})
    IN  IF nInt + nFr = 0
        THEN [val |-> Zero, end |-> p]
        ELSE [val |-> DecimalToFloat(neg, mant, x.exp - nFr), end |-> x.end]

\* strtof(s + p - 1, &end) of the C library: white space, an optional sign, then
\* "inf" or "infinity", "nan" with an optional "(n-char-sequence)", a hexadecimal
\* or a decimal number with an optional exponent. When no number is there no
\* conversion is done: the value is 0 and end is the start p.
strtof(s, p) ==
    LET i0  == SkipSpace(s, p)
        neg == CharAt(s, i0) = "-"
        i1  == IF CharAt(s, i0) \in {"+", "-"} THEN i0 + 1 ELSE i0
        nc  == NCharEnd(s, i1 + 4)
    IN  IF MatchWord(s, i1, <<"i", "n", "f">>)
        THEN [val |-> Infinity(neg),
              end |-> IF MatchWord(s, i1 + 3, <<"i", "n", "i", "t", "y">>)
                      THEN i1 + 8 ELSE i1 + 3]
        ELSE IF MatchWord(s, i1, <<"n", "a", "n">>)
        THEN [val |-> NaN,
              end |-> IF CharAt(s, i1 + 3) = "(" /\ CharAt(s, nc) = ")"
                      THEN nc + 1 ELSE i1 + 3]
        ELSE IF CharAt(s, i1) = "0" /\ CharAt(s, i1 + 1) \in {"x", "X"}
        THEN HexFloat(s, i1, neg)
        ELSE DecimalFloat(s, p, i1, neg)

\* main.c:126-136
parse_payload(s) ==
    IF ~(CharAt(s, 1) = "T" /\ CharAt(s, 2) = "D" /\ CharAt(s, 3) = ",")
    THEN [ok |-> FALSE, tds |-> Zero, v |-> Zero]
    ELSE LET r1 == strtof(s, 4)
         IN  IF CharAt(s, r1.end) # ","
             THEN [ok |-> FALSE, tds |-> Zero, v |-> Zero]
             ELSE [ok |-> TRUE, tds |-> r1.val, v |-> strtof(s, r1.end + 1).val]

(***************************************************************************)
(* Receiver: state                                                         *)
(***************************************************************************)
VARIABLES
    RESTART_EVERY_S,  \* main.c:30, build-time configuration (seconds)
    INACTIVITY_S,     \* main.c:31, build-time configuration (seconds, 0 = off)
    tick,             \* xTaskGetTickCount() since boot
    busyTicks,        \* ticks of this boot that arrived with a task ready
    s_last_ok_rx_ms,  \* main.c:33
    s_retry,          \* main.c:38
    bits,             \* s_wifi_event_group, main.c:35
    wifi,             \* station state the handler's connect requests and the events give
    lastEvt,          \* id of the event the handler ran last
    drops,            \* link-drop events handled since boot or the last address
    gotIp,            \* an address-acquired event was handled in this boot
    pcMain, wakeMain, \* app_main, main.c:210-241
    pcRx, wakeRx,     \* task_rx, main.c:139-184
    rxPkt,            \* buf / rxLen of task_rx
    radio,            \* SX127x mode: "off", "standby", "rx"
    pcRst, wakeRst,   \* task_periodic_restart, main.c:187-193
    pcIna, wakeIna,   \* task_inactivity_restart, main.c:196-208
    inaNow,           \* local `now` of task_inactivity_restart
    restartBy,        \* which path ended the previous boot
    lastOkTick,       \* tick of the last "LoRa ok" of this boot, -1 if none
    connects,         \* calls of esp_wifi_connect() since boot or the last address
    httpErr           \* what http_send_thingspeak returned in this pass of task_rx

rxVars == <<RESTART_EVERY_S, INACTIVITY_S, tick, busyTicks, s_last_ok_rx_ms, s_retry, bits, wifi,
            lastEvt, drops, gotIp, pcMain, wakeMain, pcRx, wakeRx, rxPkt, radio,
            pcRst, wakeRst, pcIna, wakeIna, inaNow, restartBy, lastOkTick, connects,
            httpErr>>

\* the builds explored: RESTART_EVERY_S and INACTIVITY_S in seconds, and the tick
\* rate. (70, 0) is the shipped build, main.c:30-31, whose periodic restart lies
\* beyond MaxTicks at either rate and whose inactivity watchdog is disabled; the
\* third shortens the intervals and slows the tick so that both watchdogs fire
\* within MaxTicks, the inactivity watchdog before the periodic one
Configs ==
    { [restart |-> 70, inactivity |-> 0, hz |-> 100],
      [restart |-> 70, inactivity |-> 0, hz |-> 1000],
      [restart |-> 2, inactivity |-> 1, hz |-> 10] }

\* the kernel macro: milliseconds to ticks, rounded down
pdMS_TO_TICKS(ms) == (ms * configTICK_RATE_HZ) \div 1000

\* (uint32_t)(xTaskGetTickCount() * portTICK_PERIOD_MS), main.c:155 and 199
NowMs(t) == t * portTICK_PERIOD_MS

\* (uint32_t)(a - b) as [hi, lo], value hi * 2^16 + lo: for a < b the difference
\* wraps to 2^32 - (b - a)
U32Sub(a, b) ==
    IF a >= b
    THEN [hi |-> (a - b) \div TWO16, lo |-> (a - b) % TWO16]
    ELSE [hi |-> (TWO16 - 1) - ((b - a - 1) \div TWO16),
          lo |-> (TWO16 - ((b - a) % TWO16)) % TWO16]

\* x > c for a uint32_t x = [hi, lo] and 0 <= c < 2^31
U32Gt(x, c) == x.hi > c \div TWO16 \/ (x.hi = c \div TWO16 /\ x.lo > c % TWO16)

NoPkt == [len |-> -1, data |-> <<>>]

\* what lora_receive_packet may hand to task_rx
RxPackets ==
    { [len |-> 6, data |-> <<"T", "D", ",", "1", ",", "2">>],
      [len |-> 6, data |-> <<"a", "D", ",", "1", ",", "2">>],
      [len |-> 4, data |-> <<"T", "D", ",", ",">>],
      [len |-> 0, data |-> <<>>],
      [len |-> RX_BUF_SIZE, data |-> <<>>] }

EventIds == {"STA_START", "STA_DISCONNECTED", "GOT_IP"}

(***************************************************************************)
(* Receiver: Wi-Fi event handler, main.c:41-58                             *)
(***************************************************************************)
\* the handler with the retry test off by one
wifi_event_handler_early(id, st) ==
    CASE id = "STA_START" ->
            [st EXCEPT !.wifi = "Connecting", !.connects = @ + 1]
      [] id = "STA_DISCONNECTED" ->
            IF st.s_retry < MAX_RETRIES - 1
            THEN [st EXCEPT !.s_retry = @ + 1, !.wifi = "Connecting", !.connects = @ + 1]
            ELSE [st EXCEPT !.bits = @ \cup {WIFI_FAIL_BIT}, !.wifi = "Failed"]
      [] id = "GOT_IP" ->
            [st EXCEPT !.s_retry = 0, !.bits = @ \cup {WIFI_CONNECTED_BIT},
                       !.wifi = "Connected"]

\* the handler without the counter reset on address-acquired
wifi_event_handler_noreset(id, st) ==
    CASE id = "STA_START" ->
            [st EXCEPT !.wifi = "Connecting", !.connects = @ + 1]
      [] id = "STA_DISCONNECTED" ->
            IF st.s_retry < MAX_RETRIES
            THEN [st EXCEPT !.s_retry = @ + 1, !.wifi = "Connecting", !.connects = @ + 1]
            ELSE [st EXCEPT !.bits = @ \cup {WIFI_FAIL_BIT}, !.wifi = "Failed"]
      [] id = "GOT_IP" ->
            [st EXCEPT !.bits = @ \cup {WIFI_CONNECTED_BIT}, !.wifi = "Connected"]

\* the handler counting the drop before the test, so that the counter passes the
\* ceiling
wifi_event_handler_overflow(id, st) ==
    CASE id = "STA_START" ->
            [st EXCEPT !.wifi = "Connecting", !.connects = @ + 1]
      [] id = "STA_DISCONNECTED" ->
            IF st.s_retry < MAX_RETRIES
            THEN [st EXCEPT !.s_retry = @ + 1, !.wifi = "Connecting", !.connects = @ + 1]
            ELSE [st EXCEPT !.s_retry = @ + 1, !.bits = @ \cup {WIFI_FAIL_BIT},
                            !.wifi = "Failed"]
      [] id = "GOT_IP" ->
            [st EXCEPT !.s_retry = 0, !.bits = @ \cup {WIFI_CONNECTED_BIT},
                       !.wifi = "Connected"]

\* the handler asking for a connection on every drop, past the ceiling too
wifi_event_handler_reconnect(id, st) ==
    CASE id = "STA_START" ->
            [st EXCEPT !.wifi = "Connecting", !.connects = @ + 1]
      [] id = "STA_DISCONNECTED" ->
            IF st.s_retry < MAX_RETRIES
            THEN [st EXCEPT !.s_retry = @ + 1, !.wifi = "Connecting", !.connects = @ + 1]
            ELSE [st EXCEPT !.bits = @ \cup {WIFI_FAIL_BIT}, !.wifi = "Connecting",
                            !.connects = @ + 1]
      [] id = "GOT_IP" ->
            [st EXCEPT !.s_retry = 0, !.bits = @ \cup {WIFI_CONNECTED_BIT},
                       !.wifi = "Connected"]

\* st = [s_retry, bits, wifi, connects]; esp_wifi_connect() is counted in connects
\* and puts the station in "Connecting", a drop that is not retried leaves it
\* "Failed", an address makes it "Connected"
wifi_event_handler(id, st) ==
    CASE id = "STA_START" ->
            [st EXCEPT !.wifi = "Connecting", !.connects = @ + 1]
      [] id = "STA_DISCONNECTED" ->
            IF st.s_retry < MAX_RETRIES
            THEN [st EXCEPT !.s_retry = @ + 1, !.wifi = "Connecting", !.connects = @ + 1]
            ELSE [st EXCEPT !.bits = @ \cup {WIFI_FAIL_BIT}, !.wifi = "Failed"]
      [] id = "GOT_IP" ->
            [st EXCEPT !.s_retry = 0, !.bits = @ \cup {WIFI_CONNECTED_BIT},
                       !.wifi = "Connected"]

(***************************************************************************)
(* Receiver: boot and restart                                              *)
(***************************************************************************)
\* every static and every task is gone after a reset; the build stays
RxBoot(pm, by) ==
    /\ tick' = 0
    /\ busyTicks' = 0
    /\ s_last_ok_rx_ms' = 0
    /\ s_retry' = 0
    /\ bits' = {}
    /\ wifi' = "Disconnected"
    /\ lastEvt' = "none"
    /\ drops' = 0
    /\ gotIp' = FALSE
    /\ pcMain' = pm
    /\ wakeMain' = 0
    /\ pcRx' = "off"
    /\ wakeRx' = 0
    /\ rxPkt' = NoPkt
    /\ radio' = "off"
    /\ pcRst' = "off"
    /\ wakeRst' = 0
    /\ pcIna' = "off"
    /\ wakeIna' = 0
    /\ inaNow' = 0
    /\ restartBy' = by
    /\ lastOkTick' = -1
    /\ connects' = 0
    /\ httpErr' = "none"
    /\ UNCHANGED <<configTICK_RATE_HZ, RESTART_EVERY_S, INACTIVITY_S>>

\* esp_restart() (main.c:164, 191, 203, 223) and the abort of ESP_ERROR_CHECK
esp_restart(by) == RxBoot("restart", by)

Running == pcMain # "restart"

wifiUnchanged == UNCHANGED <<s_retry, bits, wifi, lastEvt, drops, gotIp, connects>>
mainUnchanged == UNCHANGED <<pcMain, wakeMain>>
rxUnchanged ==
    UNCHANGED <<pcRx, wakeRx, rxPkt, radio, s_last_ok_rx_ms, lastOkTick, httpErr>>
rstUnchanged == UNCHANGED <<pcRst, wakeRst>>
inaUnchanged == UNCHANGED <<pcIna, wakeIna, inaNow>>
envUnchanged ==
    UNCHANGED <<configTICK_RATE_HZ, RESTART_EVERY_S, INACTIVITY_S, tick, busyTicks,
                restartBy>>

\* the reset vector: app_main starts again
Boot ==
    /\ pcMain = "restart"
    /\ RxBoot("nvs", "none")

(***************************************************************************)
(* Receiver: app_main, main.c:210-241, and wifi_init_sta, main.c:61-96      *)
(***************************************************************************)
\* main.c:212 ESP_ERROR_CHECK(nvs_flash_init())
Main_nvs ==
    /\ pcMain = "nvs"
    /\ \E ok \in BOOLEAN :
          IF ok
          THEN /\ pcMain' = "wifi_start"
               /\ UNCHANGED wakeMain
               /\ wifiUnchanged /\ rxUnchanged /\ rstUnchanged /\ inaUnchanged
               /\ envUnchanged
          ELSE esp_restart("abort")

\* main.c:62-85: event group, handler registration, esp_wifi_start(), which
\* posts WIFI_EVENT_STA_START
Main_wifi_start ==
    /\ pcMain = "wifi_start"
    /\ \E ok \in BOOLEAN :
          IF ok
          THEN /\ pcMain' = "wait"
               /\ wifi' = "Started"
               /\ bits' = {}
               /\ UNCHANGED <<wakeMain, s_retry, lastEvt, drops, gotIp, connects>>
               /\ rxUnchanged /\ rstUnchanged /\ inaUnchanged /\ envUnchanged
          ELSE esp_restart("abort")

\* main.c:88-95 xEventGroupWaitBits(..., portMAX_DELAY)
Main_wait ==
    /\ pcMain = "wait"
    /\ bits \cap {WIFI_CONNECTED_BIT, WIFI_FAIL_BIT} # {}
    /\ pcMain' = "create"
    /\ UNCHANGED wakeMain
    /\ wifiUnchanged /\ rxUnchanged /\ rstUnchanged /\ inaUnchanged /\ envUnchanged

\* main.c:216-217 the two restart tasks
Main_create ==
    /\ pcMain = "create"
    /\ pcMain' = "lora_init"
    /\ pcRst' = "delay"
    /\ wakeRst' = tick + pdMS_TO_TICKS(RESTART_EVERY_S * 1000)
    /\ pcIna' = "top"
    /\ UNCHANGED <<wakeMain, wakeIna, inaNow>>
    /\ wifiUnchanged /\ rxUnchanged /\ envUnchanged

\* main.c:220-240 lora_init(), radio parameters, task_rx
Main_lora_init ==
    /\ pcMain = "lora_init"
    /\ \E found \in BOOLEAN :
          IF found
          THEN /\ pcMain' = "done"
               /\ radio' = "standby"
               /\ pcRx' = "start"
               /\ UNCHANGED <<wakeMain, wakeRx, rxPkt, s_last_ok_rx_ms, lastOkTick,
                              httpErr>>
          ELSE /\ pcMain' = "lora_delay"
               /\ wakeMain' = tick + pdMS_TO_TICKS(LORA_FAIL_DELAY_MS)
               /\ rxUnchanged
    /\ wifiUnchanged /\ rstUnchanged /\ inaUnchanged /\ envUnchanged

\* main.c:222-223
Main_lora_restart ==
    /\ pcMain = "lora_delay"
    /\ tick >= wakeMain
    /\ esp_restart("lora_init")

(***************************************************************************)
(* Receiver: events of the Wi-Fi driver                                    *)
(***************************************************************************)
\* one event posted to the default loop and run through the handler. The handler
\* is given every drop and address event in every state after STA_START;
\* association and DHCP take time, so none arrives in the tick of the boot
WifiEvent ==
    /\ Running
    /\ \E id \in EventIds :
          /\ IF id = "STA_START"
             THEN wifi = "Started"
             ELSE /\ wifi \in {"Connecting", "Connected", "Failed"}
                  /\ tick > 0
          /\ id = "STA_DISCONNECTED" => drops < MaxDrops
          /\ (pcMain = "wait" /\ bits = {}) => tick <= MaxInitTicks
          /\ LET st == wifi_event_handler(id,
                          [s_retry |-> s_retry, bits |-> bits, wifi |-> wifi,
                           connects |-> IF id = "GOT_IP" THEN 0 ELSE connects])
             IN  /\ s_retry' = st.s_retry
                 /\ bits' = st.bits
                 /\ wifi' = st.wifi
                 /\ connects' = st.connects
          /\ lastEvt' = id
          /\ drops' = CASE id = "STA_DISCONNECTED" -> drops + 1
                        [] id = "GOT_IP" -> 0
                        [] OTHER -> drops
          /\ gotIp' = (gotIp \/ id = "GOT_IP")
    /\ mainUnchanged /\ rxUnchanged /\ rstUnchanged /\ inaUnchanged /\ envUnchanged

(***************************************************************************)
(* Receiver: task_rx, main.c:139-184                                       *)
(***************************************************************************)
\* main.c:144 lora_receive() before the loop
RX_start ==
    /\ pcRx = "start"
    /\ radio' = "rx"
    /\ pcRx' = "poll"
    /\ UNCHANGED <<wakeRx, rxPkt, s_last_ok_rx_ms, lastOkTick, httpErr>>
    /\ wifiUnchanged /\ mainUnchanged /\ rstUnchanged /\ inaUnchanged /\ envUnchanged

\* main.c:149 rxLen > 0 && rxLen < (int)sizeof(buf)
LenValid(rxLen) == rxLen > 0 /\ rxLen < RX_BUF_SIZE

RxAtLoopTop == pcRx = "poll" \/ (pcRx = "delay" /\ tick >= wakeRx)

\* main.c:147 lora_received() is false; main.c:182 vTaskDelay
RxIdle ==
    /\ pcRx' = "delay"
    /\ wakeRx' = tick + pdMS_TO_TICKS(RX_POLL_MS)
    /\ UNCHANGED <<rxPkt, radio, s_last_ok_rx_ms, lastOkTick, httpErr>>
    /\ wifiUnchanged /\ mainUnchanged /\ rstUnchanged /\ inaUnchanged /\ envUnchanged

\* main.c:148-155 a packet of valid length that parse_payload accepts
RxDecoded(p) ==
    /\ rxPkt' = p
    /\ radio' = "standby"
    /\ s_last_ok_rx_ms' = NowMs(tick)
    /\ lastOkTick' = tick
    /\ pcRx' = "getbits"
    /\ UNCHANGED <<wakeRx, httpErr>>
    /\ wifiUnchanged /\ mainUnchanged /\ rstUnchanged /\ inaUnchanged /\ envUnchanged

\* a dropped packet taken straight to the poll delay, lora_receive() left out
RxDropped_norearm(p) ==
    /\ rxPkt' = p
    /\ radio' = "standby"
    /\ pcRx' = "delay"
    /\ wakeRx' = tick + pdMS_TO_TICKS(RX_POLL_MS)
    /\ UNCHANGED <<s_last_ok_rx_ms, lastOkTick, httpErr>>
    /\ wifiUnchanged /\ mainUnchanged /\ rstUnchanged /\ inaUnchanged /\ envUnchanged

\* main.c:170-178 a malformed payload or an invalid read length: log, go re-arm
RxDropped(p) ==
    /\ rxPkt' = p
    /\ radio' = "standby"
    /\ pcRx' = "rearm"
    /\ UNCHANGED <<wakeRx, s_last_ok_rx_ms, lastOkTick, httpErr>>
    /\ wifiUnchanged /\ mainUnchanged /\ rstUnchanged /\ inaUnchanged /\ envUnchanged

\* task_rx with a malformed payload taken as fatal
RX_poll_fatal ==
    /\ RxAtLoopTop
    /\ \/ RxIdle
       \/ \E p \in RxPackets :
             /\ radio = "rx"
             /\ IF LenValid(p.len) /\ parse_payload(p.data).ok
                THEN RxDecoded(p)
                ELSE esp_restart("abort")

\* main.c:146-156, 170-172, 176-182: one pass of the loop up to the event-group read
RX_poll ==
    /\ RxAtLoopTop
    /\ \/ RxIdle
       \/ \E p \in RxPackets :
             /\ radio = "rx"
             /\ IF LenValid(p.len) /\ parse_payload(p.data).ok
                THEN RxDecoded(p)
                ELSE RxDropped(p)

\* main.c:158-169 xEventGroupGetBits; the HTTP call starts or the packet is dropped
RX_getbits ==
    /\ pcRx = "getbits"
    /\ pcRx' = IF WIFI_CONNECTED_BIT \in bits THEN "http" ELSE "rearm"
    /\ UNCHANGED <<wakeRx, rxPkt, radio, s_last_ok_rx_ms, lastOkTick, httpErr>>
    /\ wifiUnchanged /\ mainUnchanged /\ rstUnchanged /\ inaUnchanged /\ envUnchanged

\* task_rx built with the restart after a publish switched off (main.c:162 "#if 0")
RX_http_return_noreboot ==
    /\ pcRx = "http"
    /\ \E err \in {"ESP_OK", "ESP_FAIL"} :
          /\ httpErr' = err
          /\ pcRx' = "rearm"
          /\ UNCHANGED <<wakeRx, rxPkt, radio, s_last_ok_rx_ms, lastOkTick>>
          /\ wifiUnchanged /\ mainUnchanged /\ rstUnchanged /\ inaUnchanged
          /\ envUnchanged

\* main.c:99-123 and 160-166: http_send_thingspeak returns after however long the
\* network takes (task_rx is blocked in it meanwhile); ESP_OK restarts the
\* process, an error goes on to re-arm
RX_http_return ==
    /\ pcRx = "http"
    /\ \E err \in {"ESP_OK", "ESP_FAIL"} :
          IF err = "ESP_OK"
          THEN esp_restart("publish")
          ELSE /\ httpErr' = err
               /\ pcRx' = "rearm"
               /\ UNCHANGED <<wakeRx, rxPkt, radio, s_last_ok_rx_ms, lastOkTick>>
               /\ wifiUnchanged /\ mainUnchanged /\ rstUnchanged /\ inaUnchanged
               /\ envUnchanged

\* main.c:175/178 lora_receive(), then main.c:182 vTaskDelay
RX_rearm ==
    /\ pcRx = "rearm"
    /\ radio' = "rx"
    /\ rxPkt' = NoPkt
    /\ httpErr' = "none"
    /\ pcRx' = "delay"
    /\ wakeRx' = tick + pdMS_TO_TICKS(RX_POLL_MS)
    /\ UNCHANGED <<s_last_ok_rx_ms, lastOkTick>>
    /\ wifiUnchanged /\ mainUnchanged /\ rstUnchanged /\ inaUnchanged /\ envUnchanged

(***************************************************************************)
(* Receiver: the restart watchdogs                                         *)
(***************************************************************************)
\* main.c:187-193
task_periodic_restart ==
    /\ pcRst = "delay"
    /\ tick >= wakeRst
    /\ esp_restart("periodic")

\* the test of main.c:200 without its "never received" guard
InactivityExpired_unguarded(now, last, thr_s) == U32Gt(U32Sub(now, last), thr_s * 1000)

\* main.c:200
InactivityExpired(now, last, thr_s) ==
    last # 0 /\ U32Gt(U32Sub(now, last), thr_s * 1000)

\* main.c:198-199 the clock is read, or the check is skipped (main.c:206)
INA_top ==
    /\ pcIna = "top" \/ (pcIna = "delay" /\ tick >= wakeIna)
    /\ IF INACTIVITY_S > 0
       THEN /\ inaNow' = NowMs(tick)
            /\ pcIna' = "check"
            /\ UNCHANGED wakeIna
       ELSE /\ pcIna' = "delay"
            /\ wakeIna' = tick + pdMS_TO_TICKS(INACTIVITY_POLL_MS)
            /\ UNCHANGED inaNow
    /\ wifiUnchanged /\ mainUnchanged /\ rxUnchanged /\ rstUnchanged /\ envUnchanged

\* main.c:200-206 s_last_ok_rx_ms is read after the clock; both reads of the
\* volatile see the value of this step
INA_check ==
    /\ pcIna = "check"
    /\ IF InactivityExpired(inaNow, s_last_ok_rx_ms, INACTIVITY_S)
       THEN esp_restart("inactivity")
       ELSE /\ pcIna' = "delay"
            /\ wakeIna' = tick + pdMS_TO_TICKS(INACTIVITY_POLL_MS)
            /\ inaNow' = 0
            /\ wifiUnchanged /\ mainUnchanged /\ rxUnchanged /\ rstUnchanged
            /\ envUnchanged

(***************************************************************************)
(* Receiver: the tick interrupt                                            *)
(***************************************************************************)
\* a task that has a statement to execute now. task_rx inside the HTTP call,
\* app_main inside xEventGroupWaitBits and a task inside vTaskDelay are blocked
Ready ==
    \/ pcMain \in {"nvs", "wifi_start", "create", "lora_init"}
    \/ pcMain = "wait" /\ bits \cap {WIFI_CONNECTED_BIT, WIFI_FAIL_BIT} # {}
    \/ pcMain = "lora_delay" /\ tick >= wakeMain
    \/ wifi = "Started"
    \/ pcRx \in {"start", "poll", "getbits", "rearm"}
    \/ pcRx = "delay" /\ tick >= wakeRx
    \/ pcRst = "delay" /\ tick >= wakeRst
    \/ pcIna \in {"top", "check"}
    \/ pcIna = "delay" /\ tick >= wakeIna

\* xTaskGetTickCount() goes up by one at every tick interrupt, whatever the tasks
\* are doing: inside a vTaskDelay, inside the HTTP call, and between two
\* statements of a task too, where the tick preempts it or finds it waiting for
\* the CPU. The ticks of the second kind are counted and capped
Tick ==
    /\ Running
    /\ tick < MaxTicks
    /\ Ready => busyTicks < MaxBusyTicks
    /\ tick' = tick + 1
    /\ busyTicks' = IF Ready THEN busyTicks + 1 ELSE busyTicks
    /\ UNCHANGED <<configTICK_RATE_HZ, RESTART_EVERY_S, INACTIVITY_S, restartBy>>
    /\ wifiUnchanged /\ mainUnchanged /\ rxUnchanged /\ rstUnchanged /\ inaUnchanged

(***************************************************************************)
(* Transmitter, src/unnamed/part_000                                       *)
(***************************************************************************)
VARIABLES
    pcTx,       \* position in app_main, part_000:100-162
    txCause,    \* esp_sleep_get_wakeup_cause()
    txAdc,      \* s_adc holds a unit, part_000:30
    txI, txSum, \* i and sum of read_tds_ppm, part_000:51-52
    txMsg,      \* what snprintf formats, part_000:148
    txLen,      \* len, part_000:148-149
    txNow,      \* milliseconds since boot
    txStart,    \* start of lora_send_burst, part_000:93
    txSends,    \* calls of lora_send_packet in this boot
    txTimer,    \* the timer wake-up is armed, part_000:82
    txFault,    \* the hardware fault met in this boot, "none" if none
    txRet,      \* what snprintf returned, part_000:148; 0 before the call
    txSent,     \* the (bytes, length) pairs handed to lora_send_packet in this boot
    txLastSend  \* txNow at the latest call of lora_send_packet

txVars == <<pcTx, txCause, txAdc, txI, txSum, txMsg, txLen, txNow, txStart, txSends,
            txTimer, txFault, txRet, txSent, txLastSend>>

\* raw conversions adc_oneshot_read may deliver
RawSamples == {0, ADC_FULL_SCALE}

(***************************************************************************)
(* IEEE-754 binary32 arithmetic, round to nearest even, as the FPU does    *)
(* it: a float is [s, m, e] with value (-1)^s * m * 2^e and                *)
(* 2^23 <= m < 2^24, or m = 0. The values of the transmitter are far from   *)
(* the subnormal and overflow ranges.                                      *)
(***************************************************************************)
F32Zero == [s |-> 0, m |-> 0, e |-> 0]

\* the float nearest to (-1)^s * big * 2^e; when bits were shifted out of big
\* before, its lowest bit stands for "something below" (sticky)
F32Round(s, big, e) ==
    IF big = 0 THEN F32Zero
    ELSE LET len == BitLen(big)
         IN  IF len <= 24
             THEN [s |-> s, m |-> big * 2^(24 - len), e |-> e - (24 - len)]
             ELSE LET sh   == len - 24
                      q    == big \div 2^sh
                      r    == big % 2^sh
                      half == 2^(sh - 1)
                      up   == r > half \/ (r = half /\ q % 2 = 1)
                      qr   == IF up THEN q + 1 ELSE q
                  IN  IF qr = 2^24
                      THEN [s |-> s, m |-> 2^23, e |-> e + sh + 1]
                      ELSE [s |-> s, m |-> qr, e |-> e + sh]

\* (float)n for an int n >= 0
F32FromInt(n) == F32Round(0, n, 0)

\* x shifted right by d binary digits, the digits lost kept as a sticky lowest bit
ShiftRightSticky(x, d) ==
    IF d = 0 THEN x
    ELSE IF d > 30 THEN (IF x # 0 THEN 1 ELSE 0)
    ELSE LET q == x \div 2^d
         IN  IF x % 2^d # 0 /\ q % 2 = 0 THEN q + 1 ELSE q

\* a * b: the 48-bit product of the mantissas from 12-bit halves
F32Mul(a, b) ==
    IF a.m = 0 \/ b.m = 0 THEN F32Zero
    ELSE LET ah  == a.m \div 4096
             al  == a.m % 4096
             bh  == b.m \div 4096
             bl  == b.m % 4096
             mid == ah * bl + al * bh
             t   == al * bl + (mid % 4096) * 4096
             lo  == t % 2^24
             hi  == ah * bh + mid \div 4096 + t \div 2^24
             top == hi * 64 + lo \div 2^18
             big == IF lo % 2^18 # 0 /\ top % 2 = 0 THEN top + 1 ELSE top
         IN  F32Round((a.s + b.s) % 2, big, a.e + b.e + 18)

F32Neg(a) == [a EXCEPT !.s = 1 - @]

\* a + b with three guard digits
F32Add(a, b) ==
    IF a.m = 0 THEN b
    ELSE IF b.m = 0 THEN a
    ELSE LET aBig == a.e > b.e \/ (a.e = b.e /\ a.m >= b.m)
             x    == IF aBig THEN a ELSE b
             y    == IF aBig THEN b ELSE a
             X    == x.m * 8
             Y    == ShiftRightSticky(y.m * 8, x.e - y.e)
         IN  IF x.s = y.s
             THEN F32Round(x.s, X + Y, x.e - 3)
             ELSE F32Round(x.s, X - Y, x.e - 3)

F32Sub(a, b) == F32Add(a, F32Neg(b))

F32Negative(a) == a.s = 1 /\ a.m # 0

\* the integer nearest to num / 2^n (ties to even), for 0 <= num < 2^31
RoundDivPow2(num, n) ==
    IF n <= 0 THEN num * 2^(0 - n)
    ELSE IF n > 31 THEN 0
    ELSE IF n = 31 THEN (IF num > 2^30 THEN 1 ELSE 0)
    ELSE LET q    == num \div 2^n
             r    == num % 2^n
             half == 2^(n - 1)
         IN  IF r > half \/ (r = half /\ q % 2 = 1) THEN q + 1 ELSE q

\* part_000:59 the float constant VREF / 4095.0f
VREF_PER_CODE == [s |-> 0, m |-> 13844583, e |-> -34]
\* part_000:66-68 the float constants 133.42f, 255.86f, 857.39f
TDS_K3 == [s |-> 0, m |-> 8743813, e |-> -16]
TDS_K2 == [s |-> 0, m |-> 16768041, e |-> -16]
TDS_K1 == [s |-> 0, m |-> 14047478, e |-> -14]

\* part_000:58-72 read_tds_ppm after the sampling loop: TEMPERATURE_C is 25, so
\* comp_coeff is exactly 1 and comp_voltage is voltage
read_tds_ppm(sum) ==
    LET raw_avg == [F32FromInt(sum) EXCEPT !.e = IF sum = 0 THEN 0 ELSE @ - 5]
        voltage == F32Mul(raw_avg, VREF_PER_CODE)
        cube    == F32Mul(F32Mul(F32Mul(TDS_K3, voltage), voltage), voltage)
        square  == F32Mul(F32Mul(TDS_K2, voltage), voltage)
        linear  == F32Mul(TDS_K1, voltage)
        poly    == F32Add(F32Sub(cube, square), linear)
        half    == IF poly.m = 0 THEN poly ELSE [poly EXCEPT !.e = @ - 1]
    IN  [tds |-> IF F32Negative(half) THEN F32Zero ELSE half, voltage |-> voltage]

\* decimal digits of n >= 0, as printf writes them
RECURSIVE Itoa(_)
Itoa(n) == IF n < 10 THEN <<DigitChars[n + 1]>>
           ELSE Itoa(n \div 10) \o <<DigitChars[(n % 10) + 1]>>

\* part_000:148 "TD,%.0f,%.2f" for 0 <= tds < 2^24 and 0 <= v < 16: printf rounds
\* the exact value of the float, ties to even
FormatPayload(tds, v) ==
    LET ppm == RoundDivPow2(tds.m, 0 - tds.e)
        cv  == RoundDivPow2(v.m * 100, 0 - v.e)
    IN  <<"T", "D", ",">> \o Itoa(ppm) \o <<",">> \o Itoa(cv \div 100) \o <<".">>
        \o <<DigitChars[((cv \div 10) % 10) + 1], DigitChars[(cv % 10) + 1]>>

TxBoot(cause) ==
    /\ pcTx' = "boot"
    /\ txCause' = cause
    /\ txAdc' = FALSE
    /\ txI' = 0
    /\ txSum' = 0
    /\ txMsg' = <<>>
    /\ txLen' = 0
    /\ txNow' = 0
    /\ txStart' = 0
    /\ txSends' = 0
    /\ txTimer' = FALSE
    /\ txFault' = "none"
    /\ txRet' = 0
    /\ txSent' = {}
    /\ txLastSend' = 0

\* what the tick clock reads at real time now (milliseconds),
\* part_000:93-94 (uint32_t)(xTaskGetTickCount() * portTICK_PERIOD_MS)
TickClockMs(now) == (now \div portTICK_PERIOD_MS) * portTICK_PERIOD_MS

\* vTaskDelay(pdMS_TO_TICKS(ms)) called at real time now: the task runs again at
\* the tick that many ticks after the current one; a delay of 0 ticks only yields
vTaskDelay(now, ms) ==
    IF pdMS_TO_TICKS(ms) = 0 THEN now
    ELSE (now \div portTICK_PERIOD_MS + pdMS_TO_TICKS(ms)) * portTICK_PERIOD_MS

\* part_000:76-89 go_to_sleep(): arm the timer, adc_deinit(), esp_deep_sleep_start().
\* esp_sleep_enable_timer_wakeup refuses only a duration out of range; SLEEP_US is
\* the constant 30 s, so the ESP_ERROR_CHECK of part_000:82 never aborts
go_to_sleep ==
    /\ txTimer' = TRUE
    /\ txAdc' = FALSE
    /\ pcTx' = "sleep"

\* abort() of a failed ESP_ERROR_CHECK: the panic handler resets the chip; no
\* wake-up source is armed and deep sleep is not entered
tx_abort(fault) ==
    /\ pcTx' = "abort"
    /\ txFault' = fault
    /\ UNCHANGED <<txCause, txI, txSum, txMsg, txLen, txNow, txStart, txSends,
                   txTimer, txRet, txSent, txLastSend>>

\* part_000:101-109 the wake cause is logged
TX_boot ==
    /\ pcTx = "boot"
    /\ pcTx' = "lora_init"
    /\ UNCHANGED <<txCause, txAdc, txI, txSum, txMsg, txLen, txNow, txStart, txSends,
                   txTimer, txFault, txRet, txSent, txLastSend>>

\* app_main going on to the ADC after the missing radio was logged
TX_lora_init_fallthrough ==
    /\ pcTx = "lora_init"
    /\ \E found \in BOOLEAN :
          /\ pcTx' = "adc_init"
          /\ txFault' = IF found THEN txFault ELSE "radio"
          /\ UNCHANGED <<txAdc, txTimer>>
    /\ UNCHANGED <<txCause, txI, txSum, txMsg, txLen, txNow, txStart, txSends, txRet,
                   txSent, txLastSend>>

\* part_000:112-136 lora_init(); a missing radio goes to sleep at once
TX_lora_init ==
    /\ pcTx = "lora_init"
    /\ \E found \in BOOLEAN :
          IF found
          THEN /\ pcTx' = "adc_init"
               /\ UNCHANGED <<txAdc, txTimer, txFault>>
          ELSE /\ go_to_sleep
               /\ txFault' = "radio"
    /\ UNCHANGED <<txCause, txI, txSum, txMsg, txLen, txNow, txStart, txSends, txRet,
                   txSent, txLastSend>>

\* part_000:33-38 and 140 adc_init(): two ESP_ERROR_CHECKs; s_adc holds the unit
\* once adc_oneshot_new_unit has succeeded
TX_adc_init ==
    /\ pcTx = "adc_init"
    /\ \E r \in {"ok", "new_unit_err", "config_channel_err"} :
          IF r = "ok"
          THEN /\ pcTx' = "sample"
               /\ txAdc' = TRUE
               /\ UNCHANGED <<txCause, txI, txSum, txMsg, txLen, txNow, txStart,
                              txSends, txTimer, txFault, txRet, txSent, txLastSend>>
          ELSE /\ tx_abort("adc_init")
               /\ txAdc' = (r = "config_channel_err")

\* part_000:52-57 one pass of the sampling loop
TX_sample ==
    /\ pcTx = "sample"
    /\ txI < SAMPLES
    /\ \E raw \in RawSamples \cup {-1} :
          IF raw >= 0
          THEN /\ txSum' = txSum + raw
               /\ txI' = txI + 1
               /\ txNow' = vTaskDelay(txNow, SAMPLE_DELAY_MS)
               /\ UNCHANGED <<pcTx, txCause, txAdc, txMsg, txLen, txStart, txSends,
                              txTimer, txFault, txRet, txSent, txLastSend>>
          ELSE /\ tx_abort("adc_read")
               /\ UNCHANGED txAdc

\* part_000:147-148 snprintf(buf, sizeof(buf), ...) stores at most sizeof(buf) - 1
\* characters of the formatted text
Truncate(msg) ==
    SubSeq(msg, 1, IF Len(msg) < TX_BUF_SIZE THEN Len(msg) ELSE TX_BUF_SIZE - 1)

\* part_000:149 if (len < 0) len = 0
EncodeLen(ret) == IF ret < 0 THEN 0 ELSE ret

\* the burst entered whatever the length
ShouldSend_always(len) == TRUE

\* part_000:151 if (len > 0)
ShouldSend(len) == len > 0

\* part_000:58-72 and 147-151 the measurement is computed and formatted; snprintf
\* returns the length of the formatted text, or a negative value on an output
\* error, which leaves nothing usable in buf
TX_encode ==
    /\ pcTx = "sample"
    /\ txI = SAMPLES
    /\ LET r   == read_tds_ppm(txSum)
           msg == FormatPayload(r.tds, r.voltage)
       IN  \E ret \in {Len(msg), -1} :
              /\ txRet' = ret
              /\ txMsg' = IF ret < 0 THEN <<>> ELSE Truncate(msg)
              /\ txLen' = EncodeLen(ret)
              /\ IF ShouldSend(EncodeLen(ret))
                 THEN pcTx' = "burst" /\ txStart' = TickClockMs(txNow)
                 ELSE pcTx' = "grace" /\ txStart' = txStart
    /\ UNCHANGED <<txCause, txAdc, txI, txSum, txNow, txSends, txTimer, txFault, txSent,
                   txLastSend>>

\* the radio send primitive of the driver: the first len bytes of buf are handed to
\* the radio; sent is what was handed to it before
lora_send_packet(sent, buf, len) == sent \cup {[data |-> buf, len |-> len]}

\* time one call of lora_send_packet may take: it returns at once (the send is
\* left to the radio) or blocks while the packet is on the air; the driver is
\* free in this, so the explored durations go from 0 to MaxSendMs
SendTimes == {0, MaxSendMs \div 2, MaxSendMs}

\* part_000:94 the loop test of lora_send_burst
BurstWindowOpen(now, start) == TickClockMs(now) - start < TX_BURST_WINDOW_MS

\* part_000:94-96 one pass of lora_send_burst: the send, then the gap delay counted
\* from the return of the send
TX_burst_send ==
    /\ pcTx = "burst"
    /\ BurstWindowOpen(txNow, txStart)
    /\ txSends' = txSends + 1
    /\ txSent' = lora_send_packet(txSent, txMsg, txLen)
    /\ txLastSend' = txNow
    /\ \E d \in SendTimes : txNow' = vTaskDelay(txNow + d, TX_BURST_GAP_MS)
    /\ UNCHANGED <<pcTx, txCause, txAdc, txI, txSum, txMsg, txLen, txStart, txTimer,
                   txFault, txRet>>

\* part_000:94 the window has elapsed
TX_burst_done ==
    /\ pcTx = "burst"
    /\ ~BurstWindowOpen(txNow, txStart)
    /\ pcTx' = "grace"
    /\ UNCHANGED <<txCause, txAdc, txI, txSum, txMsg, txLen, txNow, txStart, txSends,
                   txTimer, txFault, txRet, txSent, txLastSend>>

\* part_000:158-161 grace delay, then go_to_sleep()
TX_grace ==
    /\ pcTx = "grace"
    /\ txNow' = vTaskDelay(txNow, TX_GRACE_MS)
    /\ go_to_sleep
    /\ UNCHANGED <<txCause, txI, txSum, txMsg, txLen, txStart, txSends, txFault, txRet,
                   txSent, txLastSend>>

\* the timer ends the deep sleep: a fresh boot
TX_wake ==
    /\ pcTx = "sleep"
    /\ txTimer
    /\ TxBoot("TIMER")

\* the reset after abort(): a fresh boot that is no wake from sleep
TX_reset ==
    /\ pcTx = "abort"
    /\ TxBoot("UNDEFINED")

(***************************************************************************)
(* parse_payload on its own                                                *)
(***************************************************************************)
VARIABLES
    pIn,     \* the wire message, NUL-terminated in buf
    pOut,    \* what parse_payload returned
    pcParse  \* "call" before, "done" after

pVars == <<pIn, pOut, pcParse>>

vars == <<configTICK_RATE_HZ, rxVars, txVars, pVars>>

PayloadPrefixes == { <<"T", "D", ",">>, <<"T", "D">>, <<"a", "D", ",">>, <<>> }

TailAlphabet == {",", "1", ".", "a", " "}

PayloadTails == UNION { [1..n -> TailAlphabet] : n \in 0..MaxTailLen }

\* the examples of the wire contract
PayloadExamples ==
    { <<"X", "X", ",", "1", ",", "2">>,
      <<"T", "D", ",", "1", " ", "2">>,
      <<"T", "D", ",", "a", "b", "c", ",", "2">>,
      <<"T", "D", ",", "1", "2", "0", ",", "1", ".", "4", "3">> }

\* characters of the other number forms strtof takes: sign, exponent, hexadecimal,
\* infinity, NaN, white space other than the blank
NumberAlphabet == {"1", "0", "e", "x", "-", "p", "\t"}

NumberFields ==
    UNION { [1..n -> NumberAlphabet] : n \in 1..MaxFieldLen }
       \cup { <<"i", "n", "f">>, <<"-", "I", "N", "F">>, <<"n", "a", "n">>,
              <<"i", "n", "f", "i", "n", "i", "t", "y">>, <<"\n", "1">>,
              <<"1", "e", "3", "9">>, <<"1", "e", "-", "4", "6">>,
              <<"0", "x", "1", "p", "1", "2", "8">>, <<"0", "x", ".", "8">> }

\* a field of NumberFields as the first or as the second field
NumberPayloads ==
    { <<"T", "D", ",">> \o f \o <<",", "2">> : f \in NumberFields }
       \cup { <<"T", "D", ",", "1", ",">> \o f : f \in NumberFields }

ParseInputs ==
    { pre \o t : pre \in PayloadPrefixes, t \in PayloadTails }
       \cup PayloadExamples \cup NumberPayloads

NoResult == [ok |-> FALSE, tds |-> Zero, v |-> Zero]

ParseCall ==
    /\ pcParse = "call"
    /\ pOut' = parse_payload(pIn)
    /\ pcParse' = "done"
    /\ UNCHANGED pIn

(***************************************************************************)
(* Specifications                                                          *)
(***************************************************************************)
RxOff ==
    /\ RESTART_EVERY_S = 0 /\ INACTIVITY_S = 0 /\ tick = 0 /\ busyTicks = 0
    /\ s_last_ok_rx_ms = 0
    /\ s_retry = 0 /\ bits = {} /\ wifi = "Disconnected" /\ lastEvt = "none"
    /\ drops = 0 /\ gotIp = FALSE /\ pcMain = "off" /\ wakeMain = 0 /\ pcRx = "off"
    /\ wakeRx = 0 /\ rxPkt = NoPkt /\ radio = "off" /\ pcRst = "off" /\ wakeRst = 0
    /\ pcIna = "off" /\ wakeIna = 0 /\ inaNow = 0 /\ restartBy = "none"
    /\ lastOkTick = -1 /\ connects = 0 /\ httpErr = "none"

TxOff ==
    /\ pcTx = "off" /\ txCause = "UNDEFINED" /\ txAdc = FALSE /\ txI = 0 /\ txSum = 0
    /\ txMsg = <<>> /\ txLen = 0 /\ txNow = 0 /\ txStart = 0 /\ txSends = 0
    /\ txTimer = FALSE /\ txFault = "none" /\ txRet = 0 /\ txSent = {}
    /\ txLastSend = 0

ParseOff == pIn = <<>> /\ pOut = NoResult /\ pcParse = "off"

\* power-on of the receiver in one of the builds
RxInit ==
    /\ \E c \in Configs :
          /\ RESTART_EVERY_S = c.restart
          /\ INACTIVITY_S = c.inactivity
          /\ configTICK_RATE_HZ = c.hz
    /\ tick = 0 /\ busyTicks = 0 /\ s_last_ok_rx_ms = 0
    /\ s_retry = 0 /\ bits = {} /\ wifi = "Disconnected" /\ lastEvt = "none"
    /\ drops = 0 /\ gotIp = FALSE /\ pcMain = "nvs" /\ wakeMain = 0 /\ pcRx = "off"
    /\ wakeRx = 0 /\ rxPkt = NoPkt /\ radio = "off" /\ pcRst = "off" /\ wakeRst = 0
    /\ pcIna = "off" /\ wakeIna = 0 /\ inaNow = 0 /\ restartBy = "none"
    /\ lastOkTick = -1 /\ connects = 0 /\ httpErr = "none"

\* cold boot of the transmitter
TxInit ==
    /\ pcTx = "boot" /\ txCause = "UNDEFINED" /\ txAdc = FALSE /\ txI = 0 /\ txSum = 0
    /\ txMsg = <<>> /\ txLen = 0 /\ txNow = 0 /\ txStart = 0 /\ txSends = 0
    /\ txTimer = FALSE /\ txFault = "none" /\ txRet = 0 /\ txSent = {}
    /\ txLastSend = 0

ParseInit == pIn \in ParseInputs /\ pOut = NoResult /\ pcParse = "call"

rxOnly == UNCHANGED <<txVars, pVars>>
txOnly == UNCHANGED <<configTICK_RATE_HZ, rxVars, pVars>>
parseOnly == UNCHANGED <<configTICK_RATE_HZ, rxVars, txVars>>

Init == RxInit /\ TxOff /\ ParseOff

Next ==
    \/ Boot /\ rxOnly
    \/ Main_nvs /\ rxOnly
    \/ Main_wifi_start /\ rxOnly
    \/ Main_wait /\ rxOnly
    \/ Main_create /\ rxOnly
    \/ Main_lora_init /\ rxOnly
    \/ Main_lora_restart /\ rxOnly
    \/ WifiEvent /\ rxOnly
    \/ RX_start /\ rxOnly
    \/ RX_poll /\ rxOnly
    \/ RX_getbits /\ rxOnly
    \/ RX_http_return /\ rxOnly
    \/ RX_rearm /\ rxOnly
    \/ task_periodic_restart /\ rxOnly
    \/ INA_top /\ rxOnly
    \/ INA_check /\ rxOnly
    \/ Tick /\ rxOnly

Spec == Init /\ [][Next]_vars

InitTx == configTICK_RATE_HZ \in TickRates /\ RxOff /\ TxInit /\ ParseOff

NextTx ==
    \/ TX_boot /\ txOnly
    \/ TX_lora_init /\ txOnly
    \/ TX_adc_init /\ txOnly
    \/ TX_sample /\ txOnly
    \/ TX_encode /\ txOnly
    \/ TX_burst_send /\ txOnly
    \/ TX_burst_done /\ txOnly
    \/ TX_grace /\ txOnly
    \/ TX_wake /\ txOnly
    \/ TX_reset /\ txOnly

SpecTx == InitTx /\ [][NextTx]_vars

\* parse_payload reads no clock: the tick rate is the default
InitParse == configTICK_RATE_HZ = 100 /\ RxOff /\ TxOff /\ ParseInit

NextParse == ParseCall /\ parseOnly

SpecParse == InitParse /\ [][NextParse]_vars

(***************************************************************************)
(* Properties                                                              *)
(***************************************************************************)

\* C1 as stated: from a fresh boot, once exactly MAX_RETRIES link-drop events have
\* been handled with no address-acquired event, the failure signal is raised and
\* the link-up signal reads false.
C1_FailedAfterMaxRetriesDrops ==
    (~gotIp /\ drops = MAX_RETRIES) =>
        (WIFI_FAIL_BIT \in bits /\ WIFI_CONNECTED_BIT \notin bits)

\* C1 amended: from a fresh boot with no address-acquired event, the failure
\* signal is raised (state Failed) once MAX_RETRIES + 1 link-drop events have been
\* handled and not before: up to MAX_RETRIES drops the manager is still retrying.
\* The link-up signal reads false throughout.
C1_FailedAfterOneMoreDrop ==
    ~gotIp =>
        /\ WIFI_CONNECTED_BIT \notin bits
        /\ drops <= MAX_RETRIES => (WIFI_FAIL_BIT \notin bits /\ wifi # "Failed")
        /\ drops >= MAX_RETRIES + 1 => (WIFI_FAIL_BIT \in bits /\ wifi = "Failed")
        /\ drops <= MAX_RETRIES => s_retry = drops

C1_Witness ==
    ~gotIp /\ drops = MAX_RETRIES + 1 /\ WIFI_FAIL_BIT \in bits /\ wifi = "Failed"

\* C2 as stated: in every state of a running receiver the link-up signal
\* (WIFI_CONNECTED_BIT) is set exactly when the station is Connected.
C2_LinkUpIffConnected ==
    Running => ((WIFI_CONNECTED_BIT \in bits) <=> (wifi = "Connected"))

\* C3: an address-acquired event handled in Failed leaves the manager Connected,
\* the link-up signal raised and the retry counter 0.
C3_AddressAfterFailed ==
    [][(wifi = "Failed" /\ lastEvt' = "GOT_IP") =>
          (wifi' = "Connected" /\ s_retry' = 0 /\ WIFI_CONNECTED_BIT \in bits')]_vars

C3_Witness ==
    /\ wifi = "Connected" /\ lastEvt = "GOT_IP" /\ WIFI_FAIL_BIT \in bits
    /\ s_retry = 0 /\ drops = 0

\* C4: the inactivity watchdog restarts the process only in a boot in which a
\* packet has been decoded, whatever the threshold and the time elapsed.
C4_NoInactivityRestartBeforeFirstPacket ==
    [][restartBy' = "inactivity" => lastOkTick # -1]_vars

\* the watchdog has run its test with a clock value beyond the threshold (the
\* clock was read at most MaxBusyTicks before the test) and gone back to its
\* delay, task_rx polling and no packet decoded
C4_Witness ==
    /\ INACTIVITY_S > 0
    /\ lastOkTick = -1
    /\ pcRx = "delay"
    /\ pcIna = "delay"
    /\ NowMs(wakeIna) - INACTIVITY_POLL_MS - NowMs(MaxBusyTicks) > INACTIVITY_S * 1000

\* C5 as stated (its safety half): the inactivity watchdog restarts the process
\* only when at least INACTIVITY_S has elapsed since the last decoded packet.
C5_NoEarlyInactivityRestart ==
    [][restartBy' = "inactivity" =>
          (lastOkTick # -1 /\ NowMs(tick) - NowMs(lastOkTick) >= INACTIVITY_S * 1000)]_vars

\* C6 as stated: a boot never lasts longer than RESTART_EVERY_S.
C6_RestartWithinInterval ==
    Running => NowMs(tick) <= RESTART_EVERY_S * 1000

\* C7 as stated: the publish call starts only while the station is Connected.
C7_PublishOnlyWhenConnected ==
    [][(pcRx # "http" /\ pcRx' = "http") => wifi = "Connected"]_vars

\* C8: while task_rx exists the process is restarted only by the periodic
\* watchdog, the inactivity watchdog or the restart after a successful publish
\* (taken from inside the HTTP call), and a pass that ends in re-arm goes on to
\* the poll delay.
C8_OnlyWatchdogsAndPublishRestart ==
    [][/\ (pcRx # "off" /\ pcMain' = "restart") =>
              /\ restartBy' \in {"periodic", "inactivity", "publish"}
              /\ restartBy' = "publish" => pcRx = "http"
       /\ (pcRx = "rearm" /\ pcRx' # "rearm") =>
              (pcRx' = "delay" \/ restartBy' \in {"periodic", "inactivity"})
       /\ (pcRx = "http" /\ pcRx' # "http") =>
              (pcRx' = "rearm" \/ restartBy' \in {"periodic", "inactivity", "publish"})]_vars

\* a malformed payload was read and the listener is about to re-arm
C8_Witness ==
    /\ pcRx = "rearm"
    /\ pcMain = "done"
    /\ LenValid(rxPkt.len)
    /\ ~parse_payload(rxPkt.data).ok

FirstComma(t) ==
    IF \E i \in 1..Len(t) : t[i] = ","
    THEN CHOOSE i \in 1..Len(t) : t[i] = "," /\ \A j \in 1..(i - 1) : t[j] # ","
    ELSE 0

HasPrefix(s) == Len(s) >= 3 /\ SubSeq(s, 1, 3) = <<"T", "D", ",">>

PayloadTail(s) == SubSeq(s, 4, Len(s))

Field1(s) == SubSeq(PayloadTail(s), 1, FirstComma(PayloadTail(s)) - 1)

Field2(s) == SubSeq(PayloadTail(s), FirstComma(PayloadTail(s)) + 1, Len(PayloadTail(s)))

\* a field that begins, after white space and an optional sign, with a number:
\* a digit, a point and a digit, an infinity or a NaN
StartsNumber(f) ==
    LET i0 == SkipSpace(f, 1)
        i  == IF CharAt(f, i0) \in {"+", "-"} THEN i0 + 1 ELSE i0
    IN  \/ IsDigit(CharAt(f, i))
        \/ CharAt(f, i) = "." /\ IsDigit(CharAt(f, i + 1))
        \/ MatchWord(f, i, <<"i", "n", "f">>)
        \/ MatchWord(f, i, <<"n", "a", "n">>)

\* a field that is a decimal number and nothing else
IsDecimal(f) ==
    /\ \A i \in 1..Len(f) : IsDigit(f[i]) \/ f[i] = "."
    /\ \E i \in 1..Len(f) : IsDigit(f[i])
    /\ Cardinality({i \in 1..Len(f) : f[i] = "."}) <= 1

DecimalValue(f) ==
    LET ds  == SelectSeq(f, IsDigit)
        dot == IF \E i \in 1..Len(f) : f[i] = "."
               THEN CHOOSE i \in 1..Len(f) : f[i] = "." ELSE Len(f)
    IN  Normalize([k |-> "fin", m |-> DigitsValue(ds, 1, Len(ds) + 1, 0),
                   e |-> Len(f) - dot])

\* C9 as stated: decode fails when the prefix is not "TD,", when no comma follows
\* the first field, or when either field does not parse as a number (an empty
\* field included); it succeeds with both values on "TD,<ppm>,<volt>".
C9_DecodeRejectsMalformed ==
    pcParse = "done" =>
        /\ ( \/ ~HasPrefix(pIn)
             \/ FirstComma(PayloadTail(pIn)) = 0
             \/ ~StartsNumber(Field1(pIn))
             \/ ~StartsNumber(Field2(pIn)) ) => ~pOut.ok
        /\ (HasPrefix(pIn) /\ FirstComma(PayloadTail(pIn)) # 0
               /\ IsDecimal(Field1(pIn)) /\ IsDecimal(Field2(pIn))) =>
              (pOut.ok /\ pOut.tds = DecimalValue(Field1(pIn))
                       /\ pOut.v = DecimalValue(Field2(pIn)))

\* C10 as stated: a boot that met a hardware fault ends suspended, the timer
\* wake-up armed, and in no other way.
C10_EveryFaultSuspends ==
    txFault # "none" => (pcTx = "sleep" /\ txTimer)

\* send attempts of one burst when every pass takes exactly the gap
BurstSends == (TX_BURST_WINDOW_MS + TX_BURST_GAP_MS - 1) \div TX_BURST_GAP_MS

\* C11 as stated: lora_send_burst returns only after the window has elapsed,
\* having issued ceil(window / gap) = 10 send attempts, one more or one less at
\* most; every attempt hands the same message to the radio and two attempts in a
\* row are at least the gap apart.
C11_BurstTiming ==
    [][/\ (pcTx = "burst" /\ pcTx' = "grace") =>
              /\ txSends >= BurstSends - 1
              /\ txSends <= BurstSends + 1
              /\ txNow - txStart >= TX_BURST_WINDOW_MS
              /\ txSent = {[data |-> txMsg, len |-> txLen]}
       /\ (pcTx = "burst" /\ txSends' = txSends + 1) =>
              /\ txSent' = {[data |-> txMsg, len |-> txLen]}
              /\ txSends > 0 => txLastSend' - txLastSend >= TX_BURST_GAP_MS]_vars

\* C12: when snprintf reports an error or a text that does not fit buf, nothing
\* is handed to the radio in that boot; whatever is handed to the radio has a
\* length above 0 and below the size of buf and is the whole formatted text.
C12_EncodingFaultSuppressesSend ==
    /\ (txRet < 0 \/ txRet >= TX_BUF_SIZE) =>
          (txSends = 0 /\ txSent = {} /\ pcTx # "burst")
    /\ \A p \in txSent : p.len > 0 /\ p.len < TX_BUF_SIZE /\ p.len = Len(p.data)

\* a cycle whose formatting failed went to sleep without a send
C12_Witness ==
    /\ txRet < 0
    /\ txI = SAMPLES
    /\ pcTx = "sleep"
    /\ txSends = 0
    /\ txSent = {}

\* C16: a boot in which lora_init() did not find the radio is in deep sleep with
\* the timer wake-up armed, and in that boot the ADC was never opened, no sample
\* was taken, nothing was formatted and nothing was handed to the radio.
C16_NoRadioSkipsActive ==
    txFault = "radio" =>
        /\ pcTx = "sleep"
        /\ txTimer
        /\ ~txAdc
        /\ txI = 0 /\ txSum = 0
        /\ txRet = 0 /\ txMsg = <<>> /\ txLen = 0
        /\ txSends = 0 /\ txSent = {}

\* a timer wake-up that did not find the radio and went back to sleep
C16_Witness ==
    /\ txCause = "TIMER"
    /\ txFault = "radio"
    /\ pcTx = "sleep"
    /\ txTimer
    /\ txI = 0

\* positions of task_rx between the read of a packet and the re-arm
PostRead == {"getbits", "http", "rearm"}

WatchdogRestarts == {"periodic", "inactivity"}

\* C13: every packet read by task_rx takes it to the code between the read and
\* the re-arm, and task_rx leaves that code only through lora_receive() followed
\* by the poll delay, or through the restart after a successful publish (a
\* watchdog task may restart the process at any point, as anywhere else); the
\* poll delay is never entered with the radio out of continuous receive.
C13_RearmAfterEveryRead ==
    [][/\ (rxPkt = NoPkt /\ rxPkt' # NoPkt) => pcRx' \in PostRead
       /\ (pcRx \in PostRead /\ pcRx' \notin PostRead) =>
              \/ pcRx = "rearm" /\ pcRx' = "delay" /\ radio' = "rx"
              \/ pcRx = "http" /\ pcMain' = "restart" /\ restartBy' = "publish"
              \/ pcMain' = "restart" /\ restartBy' \in WatchdogRestarts
       /\ pcRx' = "delay" => radio' = "rx"]_vars

\* a read of invalid length is about to be re-armed
C13_Witness ==
    /\ pcRx = "rearm"
    /\ rxPkt # NoPkt
    /\ ~LenValid(rxPkt.len)
    /\ radio = "standby"

\* C14: when http_send_thingspeak returns ESP_OK the process restarts in that
\* step, so no running state follows a successful publish; when it returns an
\* error the process keeps running with task_rx at the re-arm, and the next step
\* of task_rx is lora_receive() and the poll delay (only a watchdog restart can
\* come first).
C14_PublishThenRestartOrResume ==
    [][/\ pcMain' # "restart" => httpErr' # "ESP_OK"
       /\ (pcRx = "http" /\ pcRx' # "http") =>
              \/ pcMain' = "restart" /\ restartBy' = "publish" /\ pcRx' = "off"
              \/ /\ httpErr' = "ESP_FAIL" /\ pcRx' = "rearm"
                 /\ pcMain' = pcMain /\ restartBy' = restartBy
              \/ pcMain' = "restart" /\ restartBy' \in WatchdogRestarts
       /\ (httpErr = "ESP_FAIL" /\ pcRx' # pcRx) =>
              \/ pcRx = "rearm" /\ pcRx' = "delay" /\ radio' = "rx" /\ pcMain' = pcMain
              \/ pcMain' = "restart" /\ restartBy' \in WatchdogRestarts]_vars

\* a failed publish is about to be followed by the re-arm
C14_Witness ==
    /\ httpErr = "ESP_FAIL"
    /\ pcRx = "rearm"
    /\ pcMain = "done"
    /\ WIFI_CONNECTED_BIT \in bits

\* C15 as stated: while the publish call is blocked the listener keeps polling,
\* so its latest poll is never older than one poll period.
C15_ListenerPollsDuringPublish ==
    pcRx = "http" => NowMs(tick) - NowMs(lastOkTick) <= RX_POLL_MS

\* the wire contract: prefix, separator and two fields that begin with a number
WellFormed(data) ==
    /\ HasPrefix(data)
    /\ FirstComma(PayloadTail(data)) # 0
    /\ StartsNumber(Field1(data))
    /\ StartsNumber(Field2(data))

\* C17 as stated: s_last_ok_rx_ms changes only in the step of task_rx that read a
\* packet of valid length with a well-formed payload (or is cleared by a
\* restart), and every such read sets it to the current time before the link is
\* looked at.
C17_TimestampOnlyOnDecode ==
    [][/\ s_last_ok_rx_ms' # s_last_ok_rx_ms =>
              \/ pcMain' = "restart" /\ s_last_ok_rx_ms' = 0
              \/ /\ rxPkt = NoPkt /\ rxPkt' # NoPkt
                 /\ LenValid(rxPkt'.len) /\ WellFormed(rxPkt'.data)
                 /\ s_last_ok_rx_ms' = NowMs(tick)
       /\ (rxPkt = NoPkt /\ rxPkt' # NoPkt /\ LenValid(rxPkt'.len)
              /\ WellFormed(rxPkt'.data)) =>
              (s_last_ok_rx_ms' = NowMs(tick) /\ pcRx' = "getbits")]_vars

\* C18 as stated: the success signal and the failure signal are never raised
\* together.
C18_AtMostOneSignal ==
    ~(WIFI_CONNECTED_BIT \in bits /\ WIFI_FAIL_BIT \in bits)

\* C19: s_retry stays in 0..MAX_RETRIES; a drop event below the ceiling adds one
\* to it and keeps the manager Connecting without the failure signal being
\* touched, a drop event at the ceiling leaves it unchanged and enters Failed
\* with the failure signal raised, and after an address-acquired event it is 0.
C19_RetryCounterBounded ==
    [][/\ s_retry \in 0..MAX_RETRIES
       /\ s_retry' \in 0..MAX_RETRIES
       /\ drops' = drops + 1 =>
              IF s_retry < MAX_RETRIES
              THEN s_retry' = s_retry + 1 /\ wifi' = "Connecting" /\ bits' = bits
              ELSE /\ s_retry' = s_retry /\ wifi' = "Failed"
                   /\ bits' = bits \cup {WIFI_FAIL_BIT}
       /\ lastEvt' = "GOT_IP" => s_retry' = 0]_vars

\* after an address the counter was reset, climbed to the ceiling again and a
\* further drop left it there
C19_Witness ==
    /\ gotIp
    /\ s_retry = MAX_RETRIES
    /\ wifi = "Failed"
    /\ drops = MAX_RETRIES + 2

\* C20 as stated: at most 1 + MAX_RETRIES connect requests are issued since boot
\* or since the last address-acquired event; in Failed the handler issues none and
\* the manager stays Failed, whatever further drops arrive; a Failed receiver
\* leaves Failed only through a process restart.
C20_FailedUntilRestart ==
    [][/\ connects' <= 1 + MAX_RETRIES
       /\ (wifi = "Failed" /\ pcMain' # "restart" /\ lastEvt' # "GOT_IP") =>
              (connects' = connects /\ wifi' = "Failed" /\ s_retry' = s_retry)
       /\ (wifi = "Failed" /\ wifi' # "Failed") => pcMain' = "restart"]_vars

\* C20 amended: at most 1 + MAX_RETRIES connect requests are issued since boot or
\* since the last address-acquired event; in Failed the handler issues none and
\* the manager stays Failed, whatever further drops arrive; it leaves Failed only
\* through a process restart or through an address-acquired event, which the
\* handler takes in Failed as in any state (Connected, counter reset).
C20_NoConnectAfterFailed ==
    [][/\ connects' <= 1 + MAX_RETRIES
       /\ (wifi = "Failed" /\ pcMain' # "restart" /\ lastEvt' # "GOT_IP") =>
              (connects' = connects /\ wifi' = "Failed" /\ s_retry' = s_retry)
       /\ (wifi = "Failed" /\ wifi' # "Failed") =>
              (pcMain' = "restart" \/ (lastEvt' = "GOT_IP" /\ connects' = 0))]_vars

\* from boot: the first request and MAX_RETRIES retries, then two drops in Failed
C20_Witness ==
    /\ ~gotIp
    /\ wifi = "Failed"
    /\ connects = 1 + MAX_RETRIES
    /\ drops = MAX_RETRIES + 2

====
